---- MODULE Spec2Model ----
(***************************************************************************)
(* Model of agent_adapter/main.py: the Task Store TASKS, the POST/GET      *)
(* handlers, the worker thread started for every accepted task, and the    *)
(* upstream client request_open_meteo.                                     *)
(*                                                                         *)
(* Python values are tagged records: the tag k tells the JSON/Python type, *)
(* so that a validator can be modelled by what it does to each type.       *)
(* A Python dict whose keys are fixed strings is a TLA+ record; d.update(e) *)
(* is e @@ d.  Durations are in milliseconds (0.8 s = 800).                *)
(***************************************************************************)
EXTENDS Integers, Sequences, FiniteSets, TLC

VARIABLES TASKS,    \* the Task Store: task_id -> entry (a dict)
          threads,  \* the worker threads, in the order they were started
          http,     \* the HTTP exchange handled by the step just taken
          call,     \* activation of request_open_meteo (WorkerSpec only)
          everCompleted  \* history: the task_ids that were ever completed

vars == <<TASKS, threads, http, call, everCompleted>>

---------------------------------------------------------------------------
(* Bounds *)

MaxPosts == 2       \* accepted POST requests (= worker threads) in Spec
MaxHttpPosts == 1   \* accepted POST requests in HttpSpec

---------------------------------------------------------------------------
(* Python / JSON values *)

Missing == [k |-> "missing"]            \* key absent from a JSON object
Null == [k |-> "null"]                  \* JSON null, Python None
NaN == [k |-> "nan"]                    \* the float nan (json.loads reads NaN)
Num(n) == [k |-> "num", n |-> n]
Str(s) == [k |-> "str", s |-> s]
List(v) == [k |-> "list", v |-> v]
Dict(keys, d) == [k |-> "dict", keys |-> keys, d |-> d]
EmptyDict == [x \in {} |-> x]           \* {}

\* Python truthiness of a value: None, "", 0, [] and {} are falsy.
Truthy(x) ==
    CASE x.k = "null" -> FALSE
      [] x.k = "missing" -> FALSE
      [] x.k = "str" -> x.s # ""
      [] x.k = "num" -> x.n # 0
      [] x.k = "list" -> Len(x.v) > 0
      [] x.k = "dict" -> Len(x.keys) > 0
      [] OTHER -> TRUE

\* Float comparison: every comparison with nan is false.
FloatLt(x, b) == x.k = "num" /\ x.n < b
FloatGt(x, b) == x.k = "num" /\ x.n > b

\* x or y
Or(x, y) == IF Truthy(x) THEN x ELSE y

\* str.startswith on strings held as sequences of characters
StartsWith(s, p) == Len(s) >= Len(p) /\ SubSeq(s, 1, Len(p)) = p

Min(a, b) == IF a < b THEN a ELSE b
Max(a, b) == IF a > b THEN a ELSE b

\* hashlib.sha256(...).hexdigest(): collision-free on the model's inputs
sha256(s) == [k |-> "sha256", of |-> s]

\* json.dumps(query, sort_keys=True).encode(): the query with its keys in
\* sorted order; a record has no key order, so this is the record itself,
\* tagged as a serialization.
json_dumps_sorted(q) == [k |-> "json", of |-> q]

---------------------------------------------------------------------------
(* ForecastInputs and A2ATask: pydantic validation *)

\* A required float field: ints and floats (nan included) are accepted.
FloatFieldOK(x) == x.k \in {"num", "nan"}

\* lat_range without its upper bound
lat_range_raises_NoUpper(v) == FloatLt(v, -90)

\* lat_range: raises iff v < -90 or v > 90
lat_range_raises(v) == FloatLt(v, -90) \/ FloatGt(v, 90)

\* lon_range: raises iff v < -180 or v > 180
lon_range_raises(v) == FloatLt(v, -180) \/ FloatGt(v, 180)

\* Optional[int] = Field(default=..., ge=lo, le=hi)
OptIntFieldOK(x, lo, hi) ==
    \/ x.k \in {"missing", "null"}
    \/ x.k = "num" /\ x.n >= lo /\ x.n <= hi

ForecastDaysOK(x) == OptIntFieldOK(x, 1, 16)
PastDaysOK(x) == OptIntFieldOK(x, 0, 14)

OptStrFieldOK(x) == x.k \in {"missing", "null", "str"}
OptStrListFieldOK(x) == x.k \in {"missing", "null", "list"}

Default(x, d) == IF x.k = "missing" THEN d ELSE x

\* The names of the ForecastInputs fields that fail validation.
ForecastInputsErrors(i) ==
    IF i.k # "dict" THEN {"inputs"}
    ELSE {f \in {"latitude", "longitude", "hourly", "daily", "timezone",
                 "forecast_days", "past_days", "model"} :
            CASE f = "latitude" ->
                     ~FloatFieldOK(i.d.latitude) \/ lat_range_raises(i.d.latitude)
              [] f = "longitude" ->
                     ~FloatFieldOK(i.d.longitude) \/ lon_range_raises(i.d.longitude)
              [] f = "hourly" -> ~OptStrListFieldOK(i.d.hourly)
              [] f = "daily" -> ~OptStrListFieldOK(i.d.daily)
              [] f = "timezone" -> ~OptStrFieldOK(i.d.timezone)
              [] f = "forecast_days" -> ~ForecastDaysOK(i.d.forecast_days)
              [] f = "past_days" -> ~PastDaysOK(i.d.past_days)
              [] f = "model" -> ~OptStrFieldOK(i.d.model)}

\* The validated ForecastInputs object, defaults filled in.
ForecastInputs(i) ==
    [latitude |-> i.d.latitude,
     longitude |-> i.d.longitude,
     hourly |-> Default(i.d.hourly, Null),
     daily |-> Default(i.d.daily, Null),
     timezone |-> Default(i.d.timezone, Str("UTC")),
     forecast_days |-> Default(i.d.forecast_days, Num(1)),
     past_days |-> Default(i.d.past_days, Num(0)),
     model |-> Default(i.d.model, Null)]

\* The names of the envelope fields that fail validation in A2ATask(**body).
A2ATaskErrors(b) ==
    {f \in {"task_id", "type", "constraints", "idempotency_key"} :
        CASE f = "task_id" -> ~OptStrFieldOK(b.task_id)
          [] f = "type" -> b.type.k # "str"
          [] f = "constraints" -> b.constraints.k \notin {"missing", "null", "dict"}
          [] f = "idempotency_key" -> ~OptStrFieldOK(b.idempotency_key)}
    \cup ForecastInputsErrors(b.inputs)

\* The validated A2ATask object.
A2ATask(b) ==
    [task_id |-> Default(b.task_id, Null),
     type |-> b.type,
     inputs |-> ForecastInputs(b.inputs),
     constraints |-> Default(b.constraints, Null),
     idempotency_key |-> Default(b.idempotency_key, Null)]

\* The try block of create_task: req.json() then A2ATask(**body).  The
\* exception is modelled by the set of things that failed; the empty set
\* means the block ran to its end.
ParseErrors(body) ==
    CASE body.k = "unparseable" -> {"json"}       \* req.json() raises
      [] body.k = "dict" -> A2ATaskErrors(body)
      [] OTHER -> {"not_a_mapping"}               \* A2ATask(**body) TypeError

---------------------------------------------------------------------------
(* Upstream client *)

OPEN_METEO_BASE == "https://api.open-meteo.com/v1/forecast"

\* ",".join(names)
Join(names) == [k |-> "csv", v |-> names]

build_query(i) ==
    LET q == [latitude |-> i.latitude, longitude |-> i.longitude,
              timezone |-> i.timezone, forecast_days |-> i.forecast_days,
              past_days |-> i.past_days]
        h == IF Truthy(i.hourly) THEN [hourly |-> Join(i.hourly.v)] ELSE EmptyDict
        d == IF Truthy(i.daily) THEN [daily |-> Join(i.daily.v)] ELSE EmptyDict
        m == IF Truthy(i.model) THEN [models |-> i.model] ELSE EmptyDict
    IN  m @@ d @@ h @@ q

\* What one GET attempt can do: raise a transport exception, or answer with
\* a status code and a body.  A body is its text (a name and a length in
\* characters) and what r.json() makes of it (NotJson: r.json() raises).
NotJson == [k |-> "notjson"]
Text(name, len) == [name |-> name, len |-> len]
TransportError(e) == [k |-> "exc", text |-> e]
HttpResponse(code, text, json) ==
    [k |-> "http", status_code |-> code, text |-> text, json |-> json]

Attempts_Three == 2 + 1    \* for _ in range(3)
Attempts == 2              \* for _ in range(2)
InitialBackoffMs == 800    \* backoff = 0.8
BodyCap == 800             \* r.text[:800]

\* r.text[:800]
Truncate(t) == Text(t.name, Min(t.len, BodyCap))

\* f"status={r.status_code}, body={r.text[:800]}"
StatusDiagnostic(r) ==
    [k |-> "status", status_code |-> r.status_code, body |-> Truncate(r.text)]

\* str(e)
ExceptionText(e) == [k |-> "exctext", text |-> e]

\* The activation record of request_open_meteo, with the attempts made and
\* the sleeps taken so far (gets, slept) as the observable effects.
RomEnter(query, timeout_s) ==
    [pc |-> "attempt", query |-> query, timeout_s |-> timeout_s, i |-> 0,
     backoff |-> InitialBackoffMs, last |-> Null,
     gets |-> <<>>, slept |-> <<>>, ret |-> Null]

\* An attempt that records its error only when none was recorded before
RomAttempt_KeepsFirstError(st, r) ==
    LET st1 == [st EXCEPT !.gets = Append(@, r)]
        keep(e) == IF st.last = Null THEN e ELSE st.last
    IN  IF r.k = "http" /\ r.status_code = 200 /\ r.json # NotJson
        THEN [st1 EXCEPT !.pc = "returned",
                         !.ret = [ok |-> TRUE, json |-> r.json]]
        ELSE IF r.k = "http" /\ r.status_code = 200
        THEN [st1 EXCEPT !.pc = "sleep",
                         !.last = keep(ExceptionText("JSONDecodeError"))]
        ELSE IF r.k = "http"
        THEN [st1 EXCEPT !.pc = "sleep", !.last = keep(StatusDiagnostic(r))]
        ELSE [st1 EXCEPT !.pc = "sleep", !.last = keep(ExceptionText(r.text))]

\* Lines 74-80: one pass through the try block, the upstream doing r.
RomAttempt(st, r) ==
    LET st1 == [st EXCEPT !.gets = Append(@, r)]
    IN  IF r.k = "http" /\ r.status_code = 200 /\ r.json # NotJson
        THEN [st1 EXCEPT !.pc = "returned",
                         !.ret = [ok |-> TRUE, json |-> r.json]]
        ELSE IF r.k = "http" /\ r.status_code = 200
        THEN [st1 EXCEPT !.pc = "sleep",
                         !.last = ExceptionText("JSONDecodeError")]
        ELSE IF r.k = "http"
        THEN [st1 EXCEPT !.pc = "sleep", !.last = StatusDiagnostic(r)]
        ELSE [st1 EXCEPT !.pc = "sleep", !.last = ExceptionText(r.text)]

\* Line 81, and the loop test: time.sleep(backoff); backoff *= 2
RomSleep(st) ==
    [st EXCEPT !.slept = Append(@, st.backoff),
               !.backoff = st.backoff * 2,
               !.i = st.i + 1,
               !.pc = IF st.i + 1 < Attempts THEN "attempt" ELSE "exhausted"]

\* Line 82
RomFail(st) ==
    [st EXCEPT !.pc = "returned", !.ret = [ok |-> FALSE, error |-> st.last]]

\* The whole call, the upstream doing rs[1], rs[2], ... at successive attempts.
RECURSIVE RomRun(_, _)
RomRun(st, rs) ==
    CASE st.pc = "attempt" -> RomRun(RomAttempt(st, rs[st.i + 1]), rs)
      [] st.pc = "sleep" -> RomRun(RomSleep(st), rs)
      [] st.pc = "exhausted" -> RomRun(RomFail(st), rs)
      [] OTHER -> st

request_open_meteo(query, timeout_s, rs) == RomRun(RomEnter(query, timeout_s), rs).ret

---------------------------------------------------------------------------
(* Task Store entries and worker threads *)

Uuid(n) == [k |-> "uuid", n |-> n]      \* str(uuid.uuid4()): a fresh string

NewEntry == [status |-> "accepted", outputs |-> EmptyDict, evidence |-> <<>>]

\* A thread handed the payload's own task_id, None when the caller sent none
NewThread_RawId(tid, task) ==
    [pc |-> "l85", task_id |-> task.task_id, payload |-> task]

\* A thread about to run worker(task_id, payload)
NewThread(tid, task) == [pc |-> "l85", task_id |-> tid, payload |-> task]

\* A thread that has ended: by returning, or by an exception raised at `line`
Ended(th, how, line) == [pc |-> how, task_id |-> th.task_id, line |-> line]

NoHttp == [k |-> "none"]
NoCall == [pc |-> "none"]

\* dict.update that extends the evidence list instead of replacing it
Update_AppendsEvidence(d, e) ==
    IF "evidence" \in DOMAIN e
    THEN [e @@ d EXCEPT !.evidence = d.evidence \o e.evidence]
    ELSE e @@ d

\* dict.update
Update(d, e) == e @@ d

\* An item store that reaches every entry of the store
SetItem_All(T, tid, key, value) ==
    [t \in DOMAIN T |-> (key :> value) @@ T[t]]

\* TASKS[task_id][key] = value
SetItem(T, tid, key, value) == [T EXCEPT ![tid] = (key :> value) @@ @]

\* int(x) raises unless x is a number (a non-numeric string, None, nan)
int_raises(x) == x.k # "num"

\* (payload.constraints or {}).get("latency_ms", 20000)
latency_ms(payload) ==
    LET c == IF Truthy(payload.constraints) THEN payload.constraints.d ELSE EmptyDict
    IN  IF "latency_ms" \in DOMAIN c THEN c["latency_ms"] ELSE Num(20000)

\* A timeout with no upper limit
timeout_s_NoCeiling(timeout_ms) == Max(5, timeout_ms \div 1000)

\* max(5, min(60, timeout_ms // 1000))
timeout_s(timeout_ms) == Max(5, Min(60, timeout_ms \div 1000))

\* data.get(key)
Get(data, key) == IF key \in DOMAIN data.d THEN data.d[key] ELSE Null

\* list(data.get(key, {}).keys()) if data.get(key) else []  raises
\* AttributeError when the group is truthy and is not a dict
fields_raises(data, key) == Truthy(Get(data, key)) /\ Get(data, key).k # "dict"
fields(data, key) == IF Truthy(Get(data, key)) THEN Get(data, key).keys ELSE <<>>

\* Lines 96-101 raise AttributeError: data is not a dict, or a group is not
summary_raises(data) ==
    \/ data.k # "dict"
    \/ fields_raises(data, "hourly")
    \/ fields_raises(data, "daily")

\* A summary that lists the daily keys as hourly_fields and the reverse
summary_SwapsGroups(data) ==
    [latitude |-> Get(data, "latitude"),
     longitude |-> Get(data, "longitude"),
     hourly_fields |-> fields(data, "daily"),
     daily_fields |-> fields(data, "hourly")]

summary(data) ==
    [latitude |-> Get(data, "latitude"),
     longitude |-> Get(data, "longitude"),
     hourly_fields |-> fields(data, "hourly"),
     daily_fields |-> fields(data, "daily")]

evidence_record(qhash, ts) ==
    [type |-> "upstream.http",
     value |-> [url |-> OPEN_METEO_BASE, query_sha256 |-> qhash, timestamp |-> ts]]

\* Line 93
failure_update(res) ==
    [status |-> "error",
     outputs |-> [message |-> "upstream_failed", detail |-> res.error]]

\* Line 103
success_update(data, qhash, ts) ==
    [status |-> "completed",
     outputs |-> [summary |-> summary(data), open_meteo |-> data],
     evidence |-> <<evidence_record(qhash, ts)>>]

---------------------------------------------------------------------------
(* The requests and upstream behaviours the model draws from *)

Bearer == <<"B", "e", "a", "r", "e", "r", " ">>
Header(chars) == [k |-> "hdr", c |-> chars]

\* req.headers.get("authorization", "")
authorization(req) ==
    IF req.authorization.k = "missing" THEN <<>> ELSE req.authorization.c

BadHeaders ==
    {Missing, Header(<<>>), Header(<<"B", "e", "a", "r", "e", "r">>),
     Header(<<"b", "e", "a", "r", "e", "r", " ", "k">>),
     Header(<<"B", "a", "s", "i", "c", " ", "k">>)}

Inputs(d) == [k |-> "dict", d |-> d]

BaseInputs ==
    Inputs([latitude |-> Num(35), longitude |-> Num(139),
            hourly |-> List(<<"temperature_2m">>), daily |-> Missing,
            timezone |-> Missing, forecast_days |-> Num(1),
            past_days |-> Missing, model |-> Missing])

BaseBody ==
    [k |-> "dict", task_id |-> Str("t1"), type |-> Str("weather.forecast"),
     inputs |-> BaseInputs, constraints |-> Missing,
     idempotency_key |-> Missing]

WithInput(b, field, v) == [b EXCEPT !.inputs.d[field] = v]

Latency(v) == Dict(<<"latency_ms">>, [latency_ms |-> v])

\* Bodies that differ from BaseBody in one input field.
LatitudeBodies ==
    {WithInput(BaseBody, "latitude", v) :
        v \in {Num(-91), Num(90), Num(91), NaN, Str("north"), Missing}}
LongitudeBodies ==
    {WithInput(BaseBody, "longitude", v) : v \in {Num(-181), Num(181)}}
ForecastDaysBodies ==
    {WithInput(BaseBody, "forecast_days", v) : v \in {Num(0), Num(17)}}
PastDaysBodies ==
    {WithInput(BaseBody, "past_days", v) : v \in {Num(-1), Num(15)}}

\* Bodies that differ from BaseBody in one envelope field.
EnvelopeBodies ==
    {[BaseBody EXCEPT !.task_id = v] : v \in {Missing, Str("")}}
    \cup {[BaseBody EXCEPT !.constraints = Latency(Str("fast"))]}
    \cup {[BaseBody EXCEPT !.idempotency_key = Str("k1")]}
    \cup {[BaseBody EXCEPT !.type = v] : v \in {Missing, Num(5), Str("weather.alert")}}

\* A wrong type together with something else wrong, or with no task_id.
WrongTypeBodies ==
    {[b EXCEPT !.type = Str("weather.alert")] :
        b \in {WithInput(BaseBody, "latitude", Num(91)),
               [BaseBody EXCEPT !.task_id = Missing]}}

Bodies ==
    {[k |-> "unparseable"], [k |-> "list"], BaseBody}
    \cup LatitudeBodies \cup LongitudeBodies \cup ForecastDaysBodies
    \cup PastDaysBodies \cup EnvelopeBodies \cup WrongTypeBodies

Request(h, b) == [authorization |-> h, body |-> b]

\* The requests of Spec: BaseBody with and without a task_id, with a
\* latency_ms that is no number, with an idempotency_key; and one request
\* per way of being turned away.
Requests ==
    {Request(Header(Bearer \o <<"k">>), b) :
        b \in {BaseBody,
               [BaseBody EXCEPT !.task_id = Missing],
               [BaseBody EXCEPT !.constraints = Latency(Str("fast"))],
               [BaseBody EXCEPT !.idempotency_key = Str("k1")],
               [BaseBody EXCEPT !.type = Str("weather.alert")],
               [k |-> "unparseable"]}}
    \cup {Request(Missing, BaseBody)}

\* The requests of HttpSpec: every header with every kind of body, and every
\* body under a good header; the accepted ones among them are BaseBody, the
\* latitudes 90 and nan, and BaseBody without task_id.
HttpRequests ==
    {Request(Header(Bearer \o <<"k">>), b) :
        b \in Bodies \ (EnvelopeBodies \ WrongTypeBodies)}
    \cup {Request(Header(Bearer \o <<"k">>), [BaseBody EXCEPT !.type = v]) :
            v \in {Missing, Num(5), Str("weather.alert")}}
    \cup {Request(Header(Bearer), BaseBody)}
    \cup {Request(h, b) : h \in BadHeaders,
            b \in {BaseBody, [k |-> "unparseable"],
                   [BaseBody EXCEPT !.type = Str("weather.alert")]}}

\* The task_ids polled: those in the store, and two fixed ones
GetIds == {Str("t1"), Str("nope")} \cup DOMAIN TASKS

\* Upstream payloads
ForecastJson ==
    Dict(<<"latitude", "longitude", "hourly">>,
         [latitude |-> Num(36), longitude |-> Num(140),
          hourly |-> Dict(<<"time", "temperature_2m">>,
                          [time |-> List(<<"t0">>),
                           temperature_2m |-> List(<<Num(21)>>)])])
ListJson == List(<<Num(1)>>)

Responses ==
    {TransportError("ConnectTimeout"),
     HttpResponse(500, Text("oops", 4), NotJson),
     HttpResponse(200, Text("<html>", 6), NotJson),
     HttpResponse(200, Text("forecast", 120), ForecastJson),
     HttpResponse(200, Text("list", 3), ListJson)}

Timestamps == {1700000000}     \* int(time.time())

---------------------------------------------------------------------------
(* HTTP handlers *)

Example ==
    [type |-> "weather.forecast",
     inputs |-> [latitude |-> "35.6762", longitude |-> "139.6503",
                 hourly |-> <<"temperature_2m">>, timezone |-> "Asia/Tokyo",
                 forecast_days |-> 1]]

Unauthorized == [code |-> 401, detail |-> "missing api-key"]
InputRequired(outputs) ==
    [code |-> 200, content |-> [status |-> "input_required", outputs |-> outputs]]
Accepted(tid) ==
    [code |-> 200, content |-> [task_id |-> tid, status |-> "accepted"]]
NotFound == [code |-> 404, detail |-> "no such task"]

Post(req, resp) == [k |-> "POST", req |-> req, resp |-> resp]

\* A start that is skipped while a worker with the same inputs is running
StartWorker_Dedups(tid, task) ==
    IF \E i \in 1..Len(threads) :
          /\ "payload" \in DOMAIN threads[i]
          /\ threads[i].payload.inputs = task.inputs
    THEN threads
    ELSE Append(threads, NewThread(tid, task))

\* threading.Thread(target=worker, args=(tid, task), daemon=True).start()
StartWorker(tid, task) == Append(threads, NewThread(tid, task))

\* The prefix checked without its space
Authorized_NoSpace(req) ==
    StartsWith(authorization(req), <<"B", "e", "a", "r", "e", "r">>)

\* Any type of the weather family let through
TypeAccepted_Family(task) ==
    task.type \in {Str("weather.forecast"), Str("weather.alert")}

\* Line 113: the header starts with "Bearer "
Authorized(req) == StartsWith(authorization(req), Bearer)

\* Line 127: the type is the literal "weather.forecast"
TypeAccepted(task) == task.type = Str("weather.forecast")

\* POST /a2a/task
create_task(req) ==
    LET errs == ParseErrors(req.body)
        task == A2ATask(req.body)
        tid == IF Truthy(task.task_id) THEN task.task_id
               ELSE Uuid(Len(threads) + 1)
    IN  IF ~Authorized(req)
        THEN /\ http' = Post(req, Unauthorized)
             /\ UNCHANGED <<TASKS, threads, call, everCompleted>>
        ELSE IF errs # {}
        THEN /\ http' = Post(req, InputRequired([error |-> errs, example |-> Example]))
             /\ UNCHANGED <<TASKS, threads, call, everCompleted>>
        ELSE IF ~TypeAccepted(task)
        THEN /\ http' = Post(req, InputRequired([expected_type |-> "weather.forecast"]))
             /\ UNCHANGED <<TASKS, threads, call, everCompleted>>
        ELSE /\ TASKS' = (tid :> NewEntry) @@ TASKS
             /\ threads' = StartWorker(tid, task)
             /\ http' = Post(req, Accepted(tid))
             /\ UNCHANGED <<call, everCompleted>>

\* A GET that drops the entry it returns once the task is completed or error
get_task_EvictsTerminal(task_id) ==
    /\ http' = [k |-> "GET", task_id |-> task_id,
                resp |-> IF task_id \notin DOMAIN TASKS THEN NotFound
                         ELSE [code |-> 200,
                               content |-> [task_id |-> task_id] @@ TASKS[task_id]]]
    /\ TASKS' = IF /\ task_id \in DOMAIN TASKS
                   /\ TASKS[task_id].status \in {"completed", "error"}
                THEN [t \in DOMAIN TASKS \ {task_id} |-> TASKS[t]]
                ELSE TASKS
    /\ UNCHANGED <<threads, call, everCompleted>>

\* GET /a2a/task/{task_id}
get_task(task_id) ==
    /\ http' = [k |-> "GET", task_id |-> task_id,
                resp |-> IF task_id \notin DOMAIN TASKS THEN NotFound
                         ELSE [code |-> 200,
                               content |-> [task_id |-> task_id] @@ TASKS[task_id]]]
    /\ UNCHANGED <<TASKS, threads, call, everCompleted>>

---------------------------------------------------------------------------
(* The worker thread.  Each action is a stretch of worker() between two    *)
(* accesses to TASKS; a subscript store or an update of an entry is one    *)
(* step (a store into an entry that a POST has meanwhile replaced leaves   *)
(* the same store as the store followed by the POST).                      *)

SetThread(i, th) == [threads EXCEPT ![i] = th]

\* Line 85
Worker85(i) ==
    LET th == threads[i]
    IN  /\ th.pc = "l85"
        /\ IF th.task_id \in DOMAIN TASKS
           THEN /\ TASKS' = SetItem(TASKS, th.task_id, "status", "working")
                /\ threads' = SetThread(i, [th EXCEPT !.pc = "l86"])
           ELSE /\ TASKS' = TASKS
                /\ threads' = SetThread(i, Ended(th, "raised", 85))
        /\ http' = NoHttp
        /\ UNCHANGED <<call, everCompleted>>

\* Lines 86-90
Worker86(i) ==
    LET th == threads[i]
        ms == latency_ms(th.payload)
        query == build_query(th.payload.inputs)
        qhash == sha256(json_dumps_sorted(query))
    IN  /\ th.pc = "l86"
        /\ IF int_raises(ms)
           THEN /\ TASKS' = TASKS
                /\ threads' = SetThread(i, Ended(th, "raised", 86))
           ELSE /\ TASKS' = SetItem(TASKS, th.task_id, "idem",
                                    Or(th.payload.idempotency_key, qhash))
                /\ threads' = SetThread(i,
                      [timeout_s |-> timeout_s(ms.n), query |-> query,
                       qhash |-> qhash] @@ [th EXCEPT !.pc = "l91"])
        /\ http' = NoHttp
        /\ UNCHANGED <<call, everCompleted>>

\* Lines 92-103, res being what request_open_meteo returned
Finish(i, res) ==
    LET th == threads[i]
        tid == th.task_id
    IN  IF ~res.ok
        THEN /\ TASKS' = [TASKS EXCEPT ![tid] = Update(@, failure_update(res))]
             /\ threads' = SetThread(i, Ended(th, "returned", 94))
             /\ UNCHANGED everCompleted
        ELSE IF summary_raises(res.json)
        THEN /\ threads' = SetThread(i, Ended(th, "raised", 96))
             /\ UNCHANGED <<TASKS, everCompleted>>
        ELSE /\ \E ts \in Timestamps :
                  TASKS' = [TASKS EXCEPT ![tid] =
                              Update(@, success_update(res.json, th.qhash, ts))]
             /\ threads' = SetThread(i, Ended(th, "returned", 103))
             /\ everCompleted' = everCompleted \cup {tid}

\* Lines 91-103: the call, which touches nothing shared, and what follows it,
\* as one step; the upstream does rs[n] at attempt n.
Worker91(i) ==
    LET th == threads[i]
    IN  /\ th.pc = "l91"
        /\ \E rs \in [1..Attempts -> Responses] :
              Finish(i, request_open_meteo(th.query, th.timeout_s, rs))
        /\ http' = NoHttp
        /\ UNCHANGED call

\* Line 91 step by step: entering request_open_meteo, ...
WorkerCall(i) ==
    LET th == threads[i]
    IN  /\ th.pc = "l91"
        /\ call' = RomEnter(th.query, th.timeout_s)
        /\ threads' = SetThread(i, [th EXCEPT !.pc = "l91_in_call"])
        /\ http' = NoHttp
        /\ UNCHANGED <<TASKS, everCompleted>>

\* ... one attempt of it (lines 74-80), the upstream doing r, ...
CallAttempt(r) ==
    /\ call.pc = "attempt"
    /\ call' = RomAttempt(call, r)
    /\ http' = NoHttp
    /\ UNCHANGED <<TASKS, threads, everCompleted>>

\* ... the sleep after a failed attempt (line 81), ...
CallSleep ==
    /\ call.pc = "sleep"
    /\ call' = RomSleep(call)
    /\ http' = NoHttp
    /\ UNCHANGED <<TASKS, threads, everCompleted>>

\* ... the return after the loop (line 82), ...
CallFail ==
    /\ call.pc = "exhausted"
    /\ call' = RomFail(call)
    /\ http' = NoHttp
    /\ UNCHANGED <<TASKS, threads, everCompleted>>

\* ... and the worker going on with what it returned (lines 92-103).  The
\* finished activation is kept as the record of the call.
WorkerResume(i) ==
    /\ threads[i].pc = "l91_in_call"
    /\ call.pc = "returned"
    /\ Finish(i, call.ret)
    /\ call' = [call EXCEPT !.pc = "done"]
    /\ http' = NoHttp

---------------------------------------------------------------------------
(* The service: any interleaving of requests and worker steps *)

Init ==
    /\ TASKS = <<>>
    /\ threads = <<>>
    /\ http = NoHttp
    /\ call = NoCall
    /\ everCompleted = {}

\* create_task accepts req
Accepts(req) ==
    /\ Authorized(req)
    /\ ParseErrors(req.body) = {}
    /\ TypeAccepted(A2ATask(req.body))

\* The model follows at most n accepted POST requests.
Admits(req, n) == Accepts(req) => Len(threads) < n

Next ==
    \/ \E req \in Requests : Admits(req, MaxPosts) /\ create_task(req)
    \/ \E task_id \in GetIds : get_task(task_id)
    \/ \E i \in 1..Len(threads) : Worker85(i)
    \/ \E i \in 1..Len(threads) : Worker86(i)
    \/ \E i \in 1..Len(threads) : Worker91(i)

Spec == Init /\ [][Next]_vars

\* The same service, under the requests that probe the checks of create_task
HttpNext ==
    \/ \E req \in HttpRequests : Admits(req, MaxHttpPosts) /\ create_task(req)
    \/ \E task_id \in GetIds : get_task(task_id)
    \/ \E i \in 1..Len(threads) : Worker85(i)
    \/ \E i \in 1..Len(threads) : Worker86(i)
    \/ \E i \in 1..Len(threads) : Worker91(i)

HttpSpec == Init /\ [][HttpNext]_vars

---------------------------------------------------------------------------
(* One worker, step by step: the service right after one accepted POST,    *)
(* and the thread it started running alone, request_open_meteo one attempt *)
(* and one sleep at a time.                                                *)

LatencyValues ==
    {-1, 0, 999, 3000, 4999, 5000, 5999, 6000, 20000, 59999, 60000, 60999,
     61000, 3600000}

WorkerRequests ==
    {Request(Header(Bearer \o <<"k">>), b) :
        b \in {[BaseBody EXCEPT !.constraints = Latency(Num(n))] :
                  n \in LatencyValues}
              \cup
              {BaseBody,
               [BaseBody EXCEPT !.task_id = Missing],
               [BaseBody EXCEPT !.task_id = Str("")],
               [BaseBody EXCEPT !.constraints = Latency(Str("fast"))],
               [BaseBody EXCEPT !.constraints = Dict(<<>>, EmptyDict)],
               [BaseBody EXCEPT !.constraints =
                   Dict(<<"priority">>, [priority |-> Str("low")])],
               [BaseBody EXCEPT !.idempotency_key = Str("k1")],
               [BaseBody EXCEPT !.idempotency_key = Str("")],
               WithInput(BaseBody, "past_days", Num(2))}}

\* An upstream payload with an empty hourly group and a daily group
DailyJson ==
    Dict(<<"latitude", "longitude", "hourly", "daily">>,
         [latitude |-> Num(-34), longitude |-> Num(151),
          hourly |-> Dict(<<>>, EmptyDict),
          daily |-> Dict(<<"time", "temperature_2m_max">>,
                         [time |-> List(<<"d0">>),
                          temperature_2m_max |-> List(<<Num(25)>>)])])

WorkerResponses ==
    Responses \cup {HttpResponse(503, Text("busy", 900), NotJson),
                    HttpResponse(200, Text("daily", 150), DailyJson)}

WorkerInit ==
    \E req \in WorkerRequests :
        LET task == A2ATask(req.body)
            tid == IF Truthy(task.task_id) THEN task.task_id ELSE Uuid(1)
        IN  /\ TASKS = (tid :> NewEntry)
            /\ threads = <<NewThread(tid, task)>>
            /\ http = Post(req, Accepted(tid))
            /\ call = NoCall
            /\ everCompleted = {}

WorkerNext ==
    \/ Worker85(1)
    \/ Worker86(1)
    \/ WorkerCall(1)
    \/ \E r \in WorkerResponses : CallAttempt(r)
    \/ CallSleep
    \/ CallFail
    \/ WorkerResume(1)

WorkerSpec == WorkerInit /\ [][WorkerNext]_vars

---------------------------------------------------------------------------
(* Properties of the task lifecycle (Spec) *)

Terminal == {"completed", "error"}

Rank(status) ==
    CASE status = "accepted" -> 0
      [] status = "working" -> 1
      [] OTHER -> 2

ThreadsOf(t) == {i \in 1..Len(threads) : threads[i].task_id = t}
HasEnded(i) == threads[i].pc \in {"returned", "raised"}

\* C1: the status stored for a task_id only moves along
\* accepted -> working -> completed|error: no step takes it back to an
\* earlier status, and no step changes it once it is completed or error.
C1_StatusNeverReverts ==
    [][\A t \in DOMAIN TASKS :
          /\ Rank(TASKS'[t].status) >= Rank(TASKS[t].status)
          /\ TASKS[t].status \in Terminal => TASKS'[t].status = TASKS[t].status]_vars

\* C2: every accepted task reaches completed or error; stated on the runs
\* that have stopped working on it: once every worker thread started for a
\* task_id has ended, the task is completed or error.
C2_EndedTaskIsTerminal ==
    \A t \in DOMAIN TASKS :
        (\A i \in ThreadsOf(t) : HasEnded(i)) => TASKS[t].status \in Terminal

\* C6: a task whose stored status is error has an empty evidence list.
C6_ErrorHasNoEvidence ==
    \A t \in DOMAIN TASKS :
        TASKS[t].status = "error" => TASKS[t].evidence = <<>>

\* C7: a task whose stored status is completed has exactly one evidence
\* record and outputs holding the summary and the upstream payload; a task
\* that is accepted or working and never completed has no evidence.
C7_EvidenceOfCompleted ==
    \A t \in DOMAIN TASKS :
        /\ TASKS[t].status = "completed" =>
              /\ Len(TASKS[t].evidence) = 1
              /\ TASKS[t].evidence[1].type = "upstream.http"
              /\ DOMAIN TASKS[t].outputs = {"summary", "open_meteo"}
              /\ TASKS[t].outputs.open_meteo.k = "dict"
        /\ (TASKS[t].status \in {"accepted", "working"} /\ t \notin everCompleted) =>
              TASKS[t].evidence = <<>>

\* C7's case: a task_id completed by two workers in turn, holding one record.
C7_Witness ==
    \E t \in DOMAIN TASKS :
        /\ TASKS[t].status = "completed"
        /\ Len(TASKS[t].evidence) = 1
        /\ \E i, j \in ThreadsOf(t) :
              /\ i # j
              /\ threads[i].pc = "returned" /\ threads[i].line = 103
              /\ threads[j].pc = "returned" /\ threads[j].line = 103

---------------------------------------------------------------------------
(* Properties of request_open_meteo and of the worker around it (WorkerSpec) *)

InCall == call.pc # "none"
CallOver == call.pc \in {"returned", "done"}

Answers200(r) == r.k = "http" /\ r.status_code = 200
AnswersJson200(r) == Answers200(r) /\ r.json # NotJson

\* The diagnostic of a failed attempt, as the specification words it: the
\* status code and the body cut to 800 characters, or the exception text.
DiagnosticOf(r) ==
    IF r.k = "exc" THEN [k |-> "exctext", text |-> r.text]
    ELSE IF Answers200(r) THEN [k |-> "exctext", text |-> "JSONDecodeError"]
    ELSE [k |-> "status", status_code |-> r.status_code,
          body |-> [name |-> r.text.name,
                    len |-> IF r.text.len > 800 THEN 800 ELSE r.text.len]]

\* C3 as stated: at most 2 attempts; the first attempt that answers HTTP 200
\* is the last one and the call returns success with its body; a call whose
\* attempts all fail (non-200 or transport exception) has made exactly 2.
C3_ReturnsAtFirst200 ==
    InCall =>
        /\ Len(call.gets) <= 2
        /\ \A n \in 1..Len(call.gets) :
              Answers200(call.gets[n]) =>
                  /\ n = Len(call.gets)
                  /\ CallOver
                  /\ call.ret = [ok |-> TRUE, json |-> call.gets[n].json]
        /\ (CallOver /\ \A n \in 1..Len(call.gets) : ~Answers200(call.gets[n])) =>
              Len(call.gets) = 2

\* C3, amended: at most 2 attempts; the first attempt that answers HTTP 200
\* with a body that parses as JSON is the last one and the call returns
\* success with the parsed body; a call that returns with no such attempt
\* has made exactly 2 attempts and returns a failure.
C3_ReturnsAtFirstJson200 ==
    InCall =>
        /\ Len(call.gets) <= 2
        /\ \A n \in 1..Len(call.gets) :
              AnswersJson200(call.gets[n]) =>
                  /\ n = Len(call.gets)
                  /\ CallOver
                  /\ call.ret = [ok |-> TRUE, json |-> call.gets[n].json]
        /\ (CallOver /\ \A n \in 1..Len(call.gets) : ~AnswersJson200(call.gets[n])) =>
              /\ Len(call.gets) = 2
              /\ ~call.ret.ok

\* C3's case: a 200 whose body is no JSON, retried, then a 200 that parses.
C3_Witness ==
    /\ call.pc = "returned"
    /\ Len(call.gets) = 2
    /\ Answers200(call.gets[1]) /\ ~AnswersJson200(call.gets[1])
    /\ AnswersJson200(call.gets[2])
    /\ call.ret.ok

\* C4: a call sleeps at most once, for 0.8 s, and only between two attempts:
\* never after the second attempt.
C4_SleepsOnlyBetweenAttempts ==
    InCall =>
        /\ Len(call.slept) <= 1
        /\ \A n \in 1..Len(call.slept) : call.slept[n] = 800
        /\ CallOver => Len(call.slept) < Len(call.gets)

\* C5: when both attempts fail the call returns ok = false with the
\* diagnostic of the last attempt, nothing is raised into the worker, and
\* the worker then stores status error with message "upstream_failed" and
\* that diagnostic as detail.
C5_FailureIsReported ==
    (CallOver /\ \A n \in 1..Len(call.gets) : ~AnswersJson200(call.gets[n])) =>
        LET diagnostic == DiagnosticOf(call.gets[Len(call.gets)])
            tid == threads[1].task_id
        IN  /\ call.ret = [ok |-> FALSE, error |-> diagnostic]
            /\ threads[1].pc # "raised"
            /\ call.pc = "done" =>
                  /\ threads[1].pc = "returned"
                  /\ TASKS[tid].status = "error"
                  /\ TASKS[tid].outputs =
                        [message |-> "upstream_failed", detail |-> diagnostic]

\* C5's case: a transport error, then a 503 whose body is longer than 800
\* characters, and the worker has stored the error.
C5_Witness ==
    /\ call.pc = "done"
    /\ Len(call.gets) = 2
    /\ call.gets[1].k = "exc"
    /\ call.gets[2].k = "http" /\ call.gets[2].text.len > 800
    /\ TASKS[threads[1].task_id].status = "error"
    /\ TASKS[threads[1].task_id].outputs.detail.body.len = 800

---------------------------------------------------------------------------
(* Properties of POST /a2a/task (HttpSpec).  http' is the exchange of the   *)
(* step: a worker step leaves NoHttp, a GET leaves a GET.                  *)

HasBearer(req) ==
    /\ req.authorization.k = "hdr"
    /\ StartsWith(req.authorization.c, Bearer)

OutOfRange(x, lo, hi) == x.k = "num" /\ (x.n < lo \/ x.n > hi)
NotANumber(x) == x.k \notin {"num", "nan"}

\* A body that fails parsing or validation, as C8 lists the ways: not JSON,
\* not an object, a field missing or of the wrong type, a value out of range.
Malformed(b) ==
    \/ b.k # "dict"
    \/ /\ b.k = "dict"
       /\ \/ b.type.k # "str"
          \/ NotANumber(b.inputs.d.latitude)
          \/ NotANumber(b.inputs.d.longitude)
          \/ OutOfRange(b.inputs.d.latitude, -90, 90)
          \/ OutOfRange(b.inputs.d.longitude, -180, 180)
          \/ OutOfRange(b.inputs.d.forecast_days, 1, 16)
          \/ OutOfRange(b.inputs.d.past_days, 0, 14)

StoreUntouched == TASKS' = TASKS /\ threads' = threads

C9_WrongTypeIsExpectedType ==
    [][(/\ http'.k = "POST" /\ HasBearer(http'.req)
        /\ http'.req.body.k = "dict"
        /\ http'.req.body.type.k = "str"
        /\ http'.req.body.type # Str("weather.forecast")) =>
          /\ http'.resp = InputRequired([expected_type |-> "weather.forecast"])
          /\ StoreUntouched]_vars

\* C9, amended: the same for a body that passes validation and whose type
\* is a string other than "weather.forecast".
C9_ValidWrongTypeIsExpectedType ==
    [][(/\ http'.k = "POST" /\ HasBearer(http'.req)
        /\ ~Malformed(http'.req.body)
        /\ http'.req.body.type # Str("weather.forecast")) =>
          /\ http'.resp = InputRequired([expected_type |-> "weather.forecast"])
          /\ StoreUntouched]_vars

\* C9's case: type "weather.alert" in an otherwise valid body with no
\* task_id, while the store holds a task.
C9_Witness ==
    /\ http.k = "POST"
    /\ HasBearer(http.req)
    /\ http.req.body.k = "dict"
    /\ http.req.body.type = Str("weather.alert")
    /\ http.req.body.task_id = Missing
    /\ http.resp = InputRequired([expected_type |-> "weather.forecast"])
    /\ DOMAIN TASKS # {}

\* C10: a POST whose Authorization header is missing or does not start with
\* "Bearer " is answered 401 whatever its body is; the Task Store is
\* unchanged and no worker is started.
C10_NoBearerIs401 ==
    [][(http'.k = "POST" /\ ~HasBearer(http'.req)) =>
          /\ http'.resp.code = 401
          /\ StoreUntouched]_vars

\* C10's case: a body that cannot be parsed under the header "Bearer"
\* without the space, while the store holds a task.
C10_Witness ==
    /\ http.k = "POST"
    /\ http.req.authorization = Header(<<"B", "e", "a", "r", "e", "r">>)
    /\ http.req.body.k = "unparseable"
    /\ http.resp.code = 401
    /\ DOMAIN TASKS # {}

---------------------------------------------------------------------------
(* Properties of GET /a2a/task/{task_id} and of task creation (Spec) *)

\* The task_ids of the POST requests accepted so far: one thread each
AcceptedIds == {threads[i].task_id : i \in 1..Len(threads)}

\* C11: a GET is answered 404 exactly when its task_id was never accepted;
\* otherwise it returns the stored entry, every field as stored, under its
\* task_id, and changes nothing.
C11_GetReturnsStoredEntry ==
    [][http'.k = "GET" =>
          LET id == http'.task_id
          IN  /\ http'.resp.code = 404 <=> id \notin AcceptedIds
              /\ id \in AcceptedIds =>
                    /\ http'.resp.code = 200
                    /\ DOMAIN http'.resp.content = DOMAIN TASKS[id] \cup {"task_id"}
                    /\ http'.resp.content.task_id = id
                    /\ \A f \in DOMAIN TASKS[id] :
                          http'.resp.content[f] = TASKS[id][f]
              /\ StoreUntouched]_vars

\* C11's case: a poll that returns a completed entry with its idem, outputs
\* and evidence.
C11_Witness ==
    /\ http.k = "GET"
    /\ http.resp.code = 200
    /\ http.resp.content.status = "completed"
    /\ http.resp.content = [task_id |-> http.task_id] @@ TASKS[http.task_id]
    /\ "idem" \in DOMAIN http.resp.content
    /\ Len(http.resp.content.evidence) = 1

---------------------------------------------------------------------------
(* The idempotency token (WorkerSpec) *)

\* The worker threads that have passed line 90 and still hold their payload
PastLine90 ==
    {i \in 1..Len(threads) : threads[i].pc \in {"l91", "l91_in_call"}}

\* C12: the stored idem is the caller's idempotency_key whenever the request
\* carries one, whatever string it is, and otherwise the hash of the
\* sorted-key serialization of the query.
C12_IdemIsKeyOrQueryHash ==
    \A i \in PastLine90 :
        LET th == threads[i]
            key == th.payload.idempotency_key
        IN  TASKS[th.task_id].idem =
                IF key.k = "str" THEN key
                ELSE sha256(json_dumps_sorted(build_query(th.payload.inputs)))

---------------------------------------------------------------------------
(* Acceptance, worker start and worker frame (Spec) *)

\* The worker threads that take a step in the transition
Stepping == {i \in 1..Len(threads) : threads'[i] # threads[i]}

\* C13: a valid authorized POST stores the accepted entry, starts one worker
\* that has taken no step yet, runs no upstream attempt and answers
\* {task_id, status: accepted}, the task_id being the caller's or a generated
\* one; and every worker step finds its task's entry in the store.
C13_AcceptedBeforeWorkerRuns ==
    [][/\ (http'.k = "POST" /\ Accepts(http'.req)) =>
             LET tid == http'.resp.content.task_id
                 sent == A2ATask(http'.req.body).task_id
             IN  /\ http'.resp = Accepted(tid)
                 /\ IF Truthy(sent) THEN tid = sent ELSE tid.k = "uuid"
                 /\ tid \in DOMAIN TASKS'
                 /\ TASKS'[tid] = NewEntry
                 /\ Len(threads') = Len(threads) + 1
                 /\ SubSeq(threads', 1, Len(threads)) = threads
                 /\ threads'[Len(threads')].pc = "l85"
                 /\ threads'[Len(threads')].task_id = tid
                 /\ call' = call
       /\ \A i \in 1..Len(threads') : threads'[i].task_id \in DOMAIN TASKS'
       /\ \A i \in Stepping :
             /\ threads[i].task_id \in DOMAIN TASKS
             /\ ~(threads'[i].pc = "raised" /\ threads'[i].line = 85)]_vars

\* C13's case: the POST of a task without task_id has just been answered
\* accepted while the worker of an earlier task has already failed upstream.
C13_Witness ==
    /\ http.k = "POST"
    /\ Accepts(http.req)
    /\ http.resp.content.status = "accepted"
    /\ http.resp.content.task_id.k = "uuid"
    /\ Len(threads) = 2
    /\ threads[1].pc = "returned"
    /\ TASKS[threads[1].task_id].status = "error"
    /\ threads[2].pc = "l85"
    /\ TASKS[threads[2].task_id] = NewEntry


\* Every worker that has not ended can take its next step, whatever the
\* other tasks hold; at line 91 the step is Worker91(i) for some result of
\* the upstream call.
Runnable ==
    \A i \in 1..Len(threads) :
        CASE threads[i].pc = "l85" -> ENABLED Worker85(i)
          [] threads[i].pc = "l86" -> ENABLED Worker86(i)
          [] threads[i].pc = "l91" ->
                \E rs \in [1..Attempts -> Responses] :
                    \E res \in {request_open_meteo(threads[i].query,
                                                   threads[i].timeout_s, rs)} :
                        ENABLED (/\ Finish(i, res)
                                 /\ http' = NoHttp
                                 /\ UNCHANGED call)
          [] OTHER -> HasEnded(i)

\* C14: every accepted POST starts exactly one worker, also when a task with
\* the same inputs and token exists; a worker is never held back by another
\* task, a step is taken by one worker at most, and a status becomes
\* completed or error only by the step of a worker of that task_id ending its
\* own upstream call (line 94 or 103).
C14_NoDeduplication ==
    /\ []Runnable
    /\ [][/\ (http'.k = "POST" /\ Accepts(http'.req)) =>
                /\ Len(threads') = Len(threads) + 1
                /\ SubSeq(threads', 1, Len(threads)) = threads
                /\ threads'[Len(threads')].payload = A2ATask(http'.req.body)
          /\ Cardinality(Stepping) <= 1
          /\ \A t \in DOMAIN TASKS :
                (TASKS'[t].status # TASKS[t].status
                   /\ TASKS'[t].status \in Terminal) =>
                    \E i \in Stepping :
                        /\ threads[i].task_id = t
                        /\ threads[i].pc = "l91"
                        /\ threads'[i].pc = "returned"
                        /\ threads'[i].line \in {94, 103}]_vars

\* C14's case: two tasks accepted from the same body without task_id hold
\* the same idem; the first one's upstream call succeeded and the second
\* one's failed.
C14_Witness ==
    /\ Len(threads) = 2
    /\ threads[1].task_id # threads[2].task_id
    /\ threads[1].pc = "returned" /\ threads[1].line = 103
    /\ threads[2].pc = "returned" /\ threads[2].line = 94
    /\ TASKS[threads[1].task_id].idem = TASKS[threads[2].task_id].idem
    /\ TASKS[threads[1].task_id].status = "completed"
    /\ TASKS[threads[2].task_id].status = "error"


\* C15: a step of the worker started for a task_id leaves the entry of every
\* other task_id and the key set of the store as they are; the key set is
\* changed by accepted POST requests only.
C15_WorkerWritesOwnEntryOnly ==
    [][/\ \A i \in Stepping :
             /\ DOMAIN TASKS' = DOMAIN TASKS
             /\ \A t \in DOMAIN TASKS \ {threads[i].task_id} :
                   TASKS'[t] = TASKS[t]
       /\ DOMAIN TASKS' # DOMAIN TASKS =>
             /\ http'.k = "POST"
             /\ Accepts(http'.req)
             /\ http'.resp.content.status = "accepted"
             /\ DOMAIN TASKS' = DOMAIN TASKS \cup {http'.resp.content.task_id}]_vars

\* C15's case: the worker of one task has just completed it while the entry
\* of another accepted task is still as create_task stored it.
C15_Witness ==
    /\ http = NoHttp
    /\ Len(threads) = 2
    /\ threads[1].task_id # threads[2].task_id
    /\ threads[1].pc = "returned"
    /\ TASKS[threads[1].task_id].status = "completed"
    /\ threads[2].pc = "l85"
    /\ TASKS[threads[2].task_id] = NewEntry

---------------------------------------------------------------------------
(* The per-attempt timeout (WorkerSpec) *)

\* latency_ms in whole seconds, no less than 5 and no more than 60
Clamped(ms) ==
    IF ms \div 1000 < 5 THEN 5
    ELSE IF ms \div 1000 > 60 THEN 60
    ELSE ms \div 1000

\* The timeout the claim gives for a payload: 20 seconds when constraints or
\* its latency_ms is absent
ClaimedTimeout(payload) ==
    LET c == payload.constraints
    IN  IF c.k # "dict" THEN 20
        ELSE IF "latency_ms" \notin DOMAIN c.d THEN 20
        ELSE Clamped(c.d.latency_ms.n)

\* C16: the timeout the worker computes, and passes to every upstream
\* attempt, is latency_ms in whole seconds clamped to [5, 60], and 20 when
\* constraints or latency_ms is absent.
C16_TimeoutIsClamped ==
    \A i \in PastLine90 :
        /\ threads[i].timeout_s = ClaimedTimeout(threads[i].payload)
        /\ threads[i].timeout_s >= 5
        /\ threads[i].timeout_s <= 60
        /\ threads[i].pc = "l91_in_call" =>
              call.timeout_s = threads[i].timeout_s

\* C16's case: an upstream attempt is about to be made for a task whose
\* latency_ms of 61000 is above the ceiling.
C16_Witness ==
    /\ PastLine90 = {1}
    /\ threads[1].payload.constraints = Latency(Num(61000))
    /\ threads[1].pc = "l91_in_call"
    /\ call.pc = "attempt"
    /\ call.timeout_s = 60

---------------------------------------------------------------------------
(* The outputs of a completed task (WorkerSpec) *)

\* The payload of the last upstream response of the call
UpstreamPayload == call.gets[Len(call.gets)].json

\* The key names of a group of the payload, none when the group is absent
GroupKeys(data, group) ==
    IF group \in DOMAIN data.d THEN data.d[group].keys ELSE <<>>

\* C17: the outputs of a completed task hold the upstream payload unchanged
\* and a summary with the payload's latitude and longitude and the key names
\* of its hourly and daily groups, the empty list for an absent or empty group.
C17_SummaryEchoesUpstream ==
    \A t \in DOMAIN TASKS :
        TASKS[t].status = "completed" =>
            LET out == TASKS[t].outputs
                data == UpstreamPayload
            IN  /\ AnswersJson200(call.gets[Len(call.gets)])
                /\ out.open_meteo = data
                /\ out.summary.latitude = data.d.latitude
                /\ out.summary.longitude = data.d.longitude
                /\ out.summary.hourly_fields = GroupKeys(data, "hourly")
                /\ out.summary.daily_fields = GroupKeys(data, "daily")

\* C17's case: a task asked for latitude 35 and longitude 139 is completed
\* from a payload answering 36 and 140 with an hourly group and no daily one.
C17_Witness ==
    /\ call.pc = "done"
    /\ call.query.latitude = Num(35)
    /\ call.query.longitude = Num(139)
    /\ \E t \in DOMAIN TASKS :
          /\ TASKS[t].status = "completed"
          /\ TASKS[t].outputs.summary.latitude = Num(36)
          /\ TASKS[t].outputs.summary.longitude = Num(140)
          /\ TASKS[t].outputs.summary.hourly_fields = <<"time", "temperature_2m">>
          /\ TASKS[t].outputs.summary.daily_fields = <<>>
          /\ TASKS[t].outputs.open_meteo = ForecastJson

---------------------------------------------------------------------------
(* The idempotency token of a terminal task (Spec) *)

\* A completed or error entry holds an idem; that of a completed task
\* submitted without idempotency_key is the query_sha256 of its one evidence
\* record.
TerminalHasIdem ==
    \A t \in DOMAIN TASKS :
        TASKS[t].status \in Terminal =>
            /\ "idem" \in DOMAIN TASKS[t]
            /\ (TASKS[t].status = "completed" /\ TASKS[t].idem.k = "sha256") =>
                  /\ Len(TASKS[t].evidence) = 1
                  /\ TASKS[t].idem = TASKS[t].evidence[1].value.query_sha256

\* The idem of an entry is written by a worker at line 90, before its
\* upstream call, and never under a terminal status.
IdemWrittenBeforeTerminal ==
    \A t \in DOMAIN TASKS :
        ("idem" \in DOMAIN TASKS'[t]
            /\ ("idem" \notin DOMAIN TASKS[t] \/ TASKS'[t].idem # TASKS[t].idem)) =>
                /\ TASKS[t].status \notin Terminal
                /\ \E i \in Stepping :
                      /\ threads[i].task_id = t
                      /\ threads[i].pc = "l86"
                      /\ threads'[i].pc = "l91"

\* C18: in every reachable state a completed or error task has an idem, for
\* a completed task without idempotency_key equal to the query_sha256 of its
\* single evidence record; the idem is written before the first upstream
\* attempt and never after a terminal status.
C18_TerminalTaskHasIdem ==
    /\ []TerminalHasIdem
    /\ [][IdemWrittenBeforeTerminal]_vars

====
